---- MODULE Spec2Model ----
(***************************************************************************)
(* ConfigService of the TUXEDO Control Center client                       *)
(* (src/ng-app/app/config.service.ts): the in-memory mirror of the         *)
(* daemon-owned settings and profile lists, the edit session holding one   *)
(* draft profile, and the commit operations that stage a payload in a      *)
(* fixed temporary file and hand it to the daemon through pkexec.          *)
(*                                                                         *)
(* Array indices are the code's 0-based numbers (findIndex returns -1 for  *)
(* "not found"); a TLA+ sequence holds element i at position i + 1.        *)
(***************************************************************************)
EXTENDS Integers, Sequences, FiniteSets, TLC

(* ------------------------------ bounds -------------------------------- *)

\* Most calls the client makes of the service's operations (a mutation of the
\* draft counts as one).
MaxCalls == 3
\* Most calls made before an asynchronous commit is called: the commits that
\* leave a helper process running are among the first MaxAsyncCalls + 1 calls.
MaxAsyncCalls == 1
\* Most changes another writer makes to the daemon's profile list.
MaxExternal == 1

(* ------------------------------ values -------------------------------- *)

\* Names of user-defined profiles and of the built-in profile the client is
\* constructed with. The mirror starts with "A" alone or with "A" and "B",
\* so "B" is also the name of no profile; the push channel can deliver a
\* built-in list that has a "B" as well.
CustomNames == {"A", "B"}
BuiltinNames == {"D"}
AllNames == CustomNames \cup BuiltinNames
\* The one modelled data field of a profile takes these values.
Vals == {0, 1}
StateIds == {"power_ac", "power_bat"}

\* JavaScript undefined (no draft, a hole of an array, a miss of find) and
\* JSON null (what a hole or an undefined entry is serialised to).
Undefined == [name |-> "<undefined>", val |-> 0 - 1, keys |-> ""]
Null == [name |-> "<null>", val |-> 0 - 1, keys |-> ""]
\* The `states` argument of writeProfile left out.
UndefinedStates == <<"<undefined>">>
\* No settings payload.
NoSettings == [stateMap |-> [s \in StateIds |-> "<none>"]]

\* The order in which an object holds its keys, which is the order
\* JSON.stringify writes them in; a key that is deleted and set again
\* becomes the last one.
NameVal == "name,val"
ValName == "val,name"
OtherOrder(keys) == IF keys = NameVal THEN ValName ELSE NameVal

\* A profile object created with its keys in the order name, val.
Profile(n, v) == [name |-> n, val |-> v, keys |-> NameVal]
\* The profiles and `states` arguments given to writeProfile.
InputProfiles == {Profile(n, 1) : n \in AllNames}
InputStates == {UndefinedStates, <<"power_ac", "power_bat">>}

(* --------------------------- array helpers ---------------------------- *)

RECURSIVE findIndexFrom(_, _, _)
findIndexFrom(arr, searched, i) ==
    IF i >= Len(arr) THEN 0 - 1
    ELSE IF arr[i + 1].name = searched THEN i
    ELSE findIndexFrom(arr, searched, i + 1)

\* Array.prototype.findIndex(p => p.name === searched)
findIndex(arr, searched) == findIndexFrom(arr, searched, 0)

\* arr[i] read: undefined outside the array.
At(arr, i) == IF i >= 0 /\ i < Len(arr) THEN arr[i + 1] ELSE Undefined

\* arr[i] = v: inside the array the element is replaced; past its end the
\* array grows and the skipped positions are holes; a negative i only adds a
\* property named "-1", which is no element and which JSON leaves out.
ArraySet(arr, i, v) ==
    IF i < 0 THEN arr
    ELSE IF i < Len(arr) THEN [arr EXCEPT ![i + 1] = v]
    ELSE arr \o [k \in 1..(i - Len(arr)) |-> Undefined] \o <<v>>

\* Array.prototype.filter(profile => profile.name !== removed)
RECURSIVE filterNot(_, _)
filterNot(arr, removed) ==
    IF arr = <<>> THEN <<>>
    ELSE IF Head(arr).name # removed
         THEN <<Head(arr)>> \o filterNot(Tail(arr), removed)
         ELSE filterNot(Tail(arr), removed)

NamesOf(arr) == {arr[k].name : k \in DOMAIN arr}

(* -------------------- ConfigHandler (serialisation) ------------------- *)

\* The JSON text of a value of the data field, and the value of a text.
ValText(v) == IF v = 0 THEN "0" ELSE "1"
TextVal(text) == IF text = "0" THEN 0 ELSE 1

\* JSON.stringify of a profile, as the sequence of the keys and values it
\* writes, in the object's key order; of undefined it is undefined, which
\* no string equals.
JSONstringify(p) ==
    IF p = Undefined THEN <<"undefined">>
    ELSE IF p = Null THEN <<"null">>
    ELSE IF p.keys = NameVal THEN <<"name", p.name, "val", ValText(p.val)>>
    ELSE <<"val", ValText(p.val), "name", p.name>>

\* JSON.parse of such a text: the object has its keys in the text's order.
JSONparse(text) ==
    IF text = <<"null">> THEN Null
    ELSE IF text[1] = "name"
    THEN [name |-> text[2], val |-> TextVal(text[4]), keys |-> NameVal]
    ELSE [name |-> text[4], val |-> TextVal(text[2]), keys |-> ValName]

\* JSON.parse(JSON.stringify(arr)) of a profile array: holes and undefined
\* entries come back as null.
JSONArray(arr) ==
    [k \in DOMAIN arr |-> IF arr[k] = Undefined THEN Null ELSE JSONparse(JSONstringify(arr[k]))]

\* ConfigHandler.copyConfig on a profile array, a profile, a Settings object.
copyConfigProfiles(arr) == JSONArray(arr)
copyConfigProfile(p) == IF p = Undefined THEN Undefined ELSE JSONparse(JSONstringify(p))
copyConfigSettings(s) == [stateMap |-> [id \in StateIds |-> s.stateMap[id]]]

\* ConfigHandler.writeProfiles / writeSettings: the content the file holds.
writeProfiles(arr) == JSONArray(arr)
writeSettings(s) == copyConfigSettings(s)

\* The daemon's entry point reads the staged list and takes it over when
\* every entry is a profile; a list with a null entry makes it exit with an
\* error.
DaemonAccepts(file) == \A k \in DOMAIN file : file[k] # Null

(* ------------------------------- state -------------------------------- *)

VARIABLES
    defaultProfiles,          \* this.defaultProfiles
    subscriptions,            \* this.subscriptions: "open", or "closed" after unsubscribe
    customProfiles,           \* this.customProfiles
    customProfilesIsDbusValue, \* this.customProfiles === this.dbus.customProfiles.value (one array)
    settings,                 \* this.settings
    currentProfileEdit,       \* this.currentProfileEdit (the draft)
    currentProfileEditIndex,  \* this.currentProfileEditIndex
    dbusCustomProfiles,       \* this.dbus.customProfiles.value
    daemonProfiles,           \* the daemon's authoritative custom profiles
    daemonSettings,           \* the settings file getSettingsNoThrow reads
    tmpProfilesFile,          \* content of /tmp/tmptccprofiles
    tmpSettingsFile,          \* content of /tmp/tmptccsettings
    pending,                  \* helper processes started by execFile, not yet exited
    external,                 \* changes made so far by another writer
    calls,                    \* calls made so far by the client
    beginName,                \* name given to the latest successful setCurrentEditingProfile
    last                      \* what the latest step did

vars == <<defaultProfiles, subscriptions, customProfiles, customProfilesIsDbusValue,
          settings, currentProfileEdit,
          currentProfileEditIndex, dbusCustomProfiles, daemonProfiles,
          daemonSettings, tmpProfilesFile, tmpSettingsFile, pending, external,
          calls, beginName, last>>

\* The client makes one more call.
Call == calls < MaxCalls /\ calls' = calls + 1
\* The call made is one that may start a helper process.
AsyncCall == calls <= MaxAsyncCalls

mirrorVars == <<defaultProfiles, customProfiles, customProfilesIsDbusValue, settings>>
sessionVars == <<currentProfileEdit, currentProfileEditIndex, beginName>>
daemonVars == <<dbusCustomProfiles, daemonProfiles, daemonSettings, external>>
fileVars == <<tmpProfilesFile, tmpSettingsFile>>

NoArgs == [name |-> "", newName |-> "", profile |-> Undefined, states |-> UndefinedStates]

\* The record of a step: the operation, its arguments, how far it got
\* ("returned": finished in this step; "staged": an asynchronous helper was
\* started and the result is pending; "settled": the helper exited and the
\* operation's promise resolved), its result, what it wrote to the staging
\* files, how many helper invocations it issued, what became of a helper in
\* it ("started", or its exit "ok" or "error"), and how many times it called
\* updateConfigData (each call is one emission of the settings), and how many
\* values it emitted on the editing-draft stream.
NothingDone(op, args, result) ==
    [op |-> op, args |-> args, phase |-> "returned", result |-> result,
     stagesProfiles |-> FALSE, stagedProfiles |-> <<>>,
     stagesSettings |-> FALSE, stagedSettings |-> NoSettings,
     escalations |-> 0, helper |-> "none", refreshes |-> 0, editingEmissions |-> 0]

\* A step that wrote the profile list to its staging file and issued one
\* helper invocation.
StagedProfiles(op, args, phase, result, file, helper) ==
    [NothingDone(op, args, result) EXCEPT !.phase = phase, !.stagesProfiles = TRUE,
        !.stagedProfiles = file, !.escalations = 1, !.helper = helper]

\* A step that wrote both staging files and issued one helper invocation.
StagedConfig(op, args, profilesFile, settingsFile) ==
    [StagedProfiles(op, args, "staged", "pending", profilesFile, "started")
        EXCEPT !.stagesSettings = TRUE, !.stagedSettings = settingsFile]

(* ------------------------------ accessors ----------------------------- *)

getSettings == settings
getCustomProfiles == customProfiles
getDefaultProfiles == defaultProfiles
getAllProfiles == defaultProfiles \o getCustomProfiles
getCurrentEditingProfile == currentProfileEdit

\* getProfileByName searching the custom profiles alone.
getProfileByName_customOnly(searchedProfileName) ==
    copyConfigProfile(At(getCustomProfiles, findIndex(getCustomProfiles, searchedProfileName)))

getProfileByName(searchedProfileName) ==
    copyConfigProfile(At(getAllProfiles, findIndex(getAllProfiles, searchedProfileName)))

getCustomProfileByName(searchedProfileName) ==
    copyConfigProfile(At(getCustomProfiles, findIndex(getCustomProfiles, searchedProfileName)))

\* JSON.stringify(draft) !== JSON.stringify(saved); JSON.stringify(undefined)
\* is undefined, which differs from every string.
editProfileChanges ==
    IF currentProfileEdit = Undefined THEN FALSE
    ELSE JSONstringify(currentProfileEdit) #
            JSONstringify(At(customProfiles, currentProfileEditIndex))

(* -------------------------------- Init -------------------------------- *)

InitialCustomProfiles ==
    {<<Profile("A", 0)>>, <<Profile("A", 0), Profile("B", 0)>>}

Init ==
    /\ defaultProfiles = <<Profile("D", 0)>>
    /\ subscriptions = "open"
    /\ daemonProfiles \in InitialCustomProfiles
    /\ dbusCustomProfiles = daemonProfiles
    /\ customProfiles = dbusCustomProfiles
    /\ customProfilesIsDbusValue = TRUE
    /\ daemonSettings = [stateMap |-> [s \in StateIds |-> "D"]]
    /\ settings = daemonSettings
    /\ currentProfileEdit = Undefined
    /\ currentProfileEditIndex = 0 - 1
    /\ tmpProfilesFile = <<>>
    /\ tmpSettingsFile = NoSettings
    /\ pending = <<>>
    /\ external = 0
    /\ calls = 0
    /\ beginName = ""
    /\ last = [NothingDone("constructor", NoArgs, "void") EXCEPT !.refreshes = 1]

(* ------------------------------ refresh ------------------------------- *)

\* updateConfigData: the custom profiles are the push channel's current
\* value, the settings are read from the daemon's settings file, and the
\* settings are emitted. Called inside a step, it reads what that step has
\* made of the daemon's state.
updateConfigData ==
    /\ customProfiles' = dbusCustomProfiles'
    /\ customProfilesIsDbusValue' = TRUE
    /\ settings' = daemonSettings'

\* refresh() emitting the settings only when they changed.
Refresh_emitOnChange ==
    /\ Call
    /\ UNCHANGED <<defaultProfiles, subscriptions, sessionVars, daemonVars, fileVars, pending>>
    /\ updateConfigData
    /\ last' = [NothingDone("updateConfigData", NoArgs, "void")
                    EXCEPT !.refreshes = IF settings' # settings THEN 1 ELSE 0]

\* refresh() called on its own.
Refresh ==
    /\ Call
    /\ UNCHANGED <<defaultProfiles, subscriptions, sessionVars, daemonVars, fileVars, pending>>
    /\ updateConfigData
    /\ last' = [NothingDone("updateConfigData", NoArgs, "void") EXCEPT !.refreshes = 1]

(* ------------------------- escalation helpers ------------------------- *)

\* pkexecWriteCustomProfiles: the list is written to /tmp/tmptccprofiles and
\* pkexec runs to its end inside the call; ok is whether it exited without
\* error, and is the value returned.
pkexecWriteCustomProfiles(list, ok) ==
    /\ ok => DaemonAccepts(writeProfiles(list))
    /\ tmpProfilesFile' = writeProfiles(list)
    /\ daemonProfiles' = IF ok THEN tmpProfilesFile' ELSE daemonProfiles
    /\ UNCHANGED <<tmpSettingsFile, daemonSettings, dbusCustomProfiles, external>>

\* A helper process started by execFile: the operation that awaits it, the
\* arguments and locals its continuation holds, and the payloads it staged.
Helper(op, args, locals, withSettings, ownProfiles, ownSettings) ==
    [op |-> op, args |-> args, locals |-> locals, withSettings |-> withSettings,
     ownProfiles |-> ownProfiles, ownSettings |-> ownSettings]

NoLocals == [profileIndex |-> 0 - 1, existingDefault |-> 0 - 1, existingCustom |-> 0 - 1]

\* pkexecWriteCustomProfilesAsync leaving the staging file alone while the
\* helper of an earlier call is running.
pkexecWriteCustomProfilesAsync_exclusive(list, op, args) ==
    /\ tmpProfilesFile' = IF pending = <<>> THEN writeProfiles(list) ELSE tmpProfilesFile
    /\ pending' = Append(pending, Helper(op, args, NoLocals, FALSE, writeProfiles(list), NoSettings))
    /\ UNCHANGED tmpSettingsFile

\* pkexecWriteCustomProfilesAsync up to the start of the helper: the list is
\* written to /tmp/tmptccprofiles and pkexec is started with --new_profiles.
pkexecWriteCustomProfilesAsync(list, op, args) ==
    /\ tmpProfilesFile' = writeProfiles(list)
    /\ pending' = Append(pending, Helper(op, args, NoLocals, FALSE, writeProfiles(list), NoSettings))
    /\ UNCHANGED tmpSettingsFile

\* pkexecWriteConfigAsync up to the start of the helper: both files are
\* written and pkexec is started with --new_profiles and --new_settings.
pkexecWriteConfigAsync(newSettings, list, op, args, locals) ==
    /\ tmpProfilesFile' = writeProfiles(list)
    /\ tmpSettingsFile' = writeSettings(newSettings)
    /\ pending' = Append(pending, Helper(op, args, locals, TRUE, writeProfiles(list), writeSettings(newSettings)))

\* What the daemon holds after the helper of `h` has exited: on success it
\* has taken over the content it read from the staging files, either before
\* a later call wrote them again (its own payload) or after (the content
\* they hold now).
HelperApplies(h, ok) ==
    IF ok
    THEN \E profilesRead \in {h.ownProfiles, tmpProfilesFile} :
           \E settingsRead \in IF h.withSettings THEN {h.ownSettings, tmpSettingsFile}
                                ELSE {daemonSettings} :
             /\ DaemonAccepts(profilesRead)
             /\ daemonProfiles' = profilesRead
             /\ daemonSettings' = settingsRead
             /\ UNCHANGED <<dbusCustomProfiles, external>>
    ELSE UNCHANGED daemonVars

\* The continuation refreshing whatever the helper's exit was.
Continuation_refreshAlways(h, ok) ==
    /\ updateConfigData
    /\ last' = [NothingDone(h.op, h.args, IF ok THEN "true" ELSE "false")
                    EXCEPT !.phase = "settled", !.helper = IF ok THEN "ok" ELSE "error",
                           !.refreshes = 1]

\* The continuation after the await / the .then of the operation: refresh on
\* success, and the operation's promise resolves to success.
Continuation(h, ok) ==
    /\ IF ok THEN updateConfigData ELSE UNCHANGED <<customProfiles, customProfilesIsDbusValue, settings>>
    /\ last' = [NothingDone(h.op, h.args, IF ok THEN "true" ELSE "false")
                    EXCEPT !.phase = "settled", !.helper = IF ok THEN "ok" ELSE "error",
                           !.refreshes = IF ok THEN 1 ELSE 0]

RemoveAt(seq, i) == [k \in 1..(Len(seq) - 1) |-> IF k < i THEN seq[k] ELSE seq[k + 1]]

\* The helper process of pending[i] exits, with or without error: execFile's
\* promise settles, resolve(true) or resolve(false) runs, and the awaiting
\* operation continues.
HelperSettle(i, ok) ==
    /\ i \in DOMAIN pending
    /\ HelperApplies(pending[i], ok)
    /\ pending' = RemoveAt(pending, i)
    /\ Continuation(pending[i], ok)
    /\ UNCHANGED <<defaultProfiles, subscriptions, sessionVars, fileVars, calls>>

(* ----------------------------- operations ----------------------------- *)

\* setActiveProfile refreshing before the helper has run.
setActiveProfile_refreshFirst(profileName, stateId) ==
    LET newSettings == [copyConfigSettings(getSettings) EXCEPT !.stateMap[stateId] = profileName]
    IN  \E ok \in BOOLEAN :
          /\ Call
          /\ tmpSettingsFile' = writeSettings(newSettings)
          /\ daemonSettings' = IF ok THEN tmpSettingsFile' ELSE daemonSettings
          /\ UNCHANGED <<defaultProfiles, subscriptions, sessionVars, dbusCustomProfiles, daemonProfiles,
                         external, tmpProfilesFile, pending>>
          /\ customProfiles' = dbusCustomProfiles
          /\ customProfilesIsDbusValue' = TRUE
          /\ settings' = daemonSettings
          /\ last' = [NothingDone("setActiveProfile",
                                   [NoArgs EXCEPT !.name = profileName, !.states = <<stateId>>],
                                   "void")
                          EXCEPT !.stagesSettings = TRUE, !.stagedSettings = writeSettings(newSettings),
                                 !.escalations = 1, !.helper = IF ok THEN "ok" ELSE "error",
                                 !.refreshes = 1]

setActiveProfile(profileName, stateId) ==
    LET newSettings == [copyConfigSettings(getSettings) EXCEPT !.stateMap[stateId] = profileName]
    IN  \E ok \in BOOLEAN :
          /\ Call
          /\ tmpSettingsFile' = writeSettings(newSettings)
          /\ daemonSettings' = IF ok THEN tmpSettingsFile' ELSE daemonSettings
          /\ UNCHANGED <<defaultProfiles, subscriptions, sessionVars, dbusCustomProfiles, daemonProfiles,
                         external, tmpProfilesFile, pending>>
          /\ updateConfigData
          /\ last' = [NothingDone("setActiveProfile",
                                   [NoArgs EXCEPT !.name = profileName, !.states = <<stateId>>],
                                   "void")
                          EXCEPT !.stagesSettings = TRUE, !.stagedSettings = writeSettings(newSettings),
                                 !.escalations = 1, !.helper = IF ok THEN "ok" ELSE "error",
                                 !.refreshes = 1]

copyProfile(profileName, newProfileName) ==
    LET profileToCopy == getProfileByName(profileName)
        existingProfile == getProfileByName(newProfileName)
        args == [NoArgs EXCEPT !.name = profileName, !.newName = newProfileName]
        newProfile == [copyConfigProfile(profileToCopy) EXCEPT !.name = newProfileName]
        newProfileList == getCustomProfiles \o <<newProfile>>
    IN  /\ Call
        /\ IF profileToCopy = Undefined \/ existingProfile # Undefined
           THEN /\ last' = NothingDone("copyProfile", args, "false")
                /\ UNCHANGED <<mirrorVars, subscriptions, sessionVars, daemonVars, fileVars, pending>>
           ELSE /\ pkexecWriteCustomProfilesAsync(newProfileList, "copyProfile", args)
                /\ last' = StagedProfiles("copyProfile", args, "staged", "pending",
                                          writeProfiles(newProfileList), "started")
                /\ UNCHANGED <<mirrorVars, subscriptions, sessionVars, daemonVars>>

\* deleteCustomProfile without the comparison of the two lengths.
deleteCustomProfile_unchecked(profileNameToDelete) ==
    LET newProfileList == filterNot(getCustomProfiles, profileNameToDelete)
        args == [NoArgs EXCEPT !.name = profileNameToDelete]
    IN  /\ Call
        /\ pkexecWriteCustomProfilesAsync(newProfileList, "deleteCustomProfile", args)
        /\ last' = StagedProfiles("deleteCustomProfile", args, "staged", "pending",
                                  writeProfiles(newProfileList), "started")
        /\ UNCHANGED <<mirrorVars, subscriptions, sessionVars, daemonVars>>

deleteCustomProfile(profileNameToDelete) ==
    LET newProfileList == filterNot(getCustomProfiles, profileNameToDelete)
        args == [NoArgs EXCEPT !.name = profileNameToDelete]
    IN  /\ Call
        /\ IF Len(newProfileList) = Len(getCustomProfiles)
           THEN /\ last' = NothingDone("deleteCustomProfile", args, "false")
                /\ UNCHANGED <<mirrorVars, subscriptions, sessionVars, daemonVars, fileVars, pending>>
           ELSE /\ pkexecWriteCustomProfilesAsync(newProfileList, "deleteCustomProfile", args)
                /\ last' = StagedProfiles("deleteCustomProfile", args, "staged", "pending",
                                          writeProfiles(newProfileList), "started")
                /\ UNCHANGED <<mirrorVars, subscriptions, sessionVars, daemonVars>>

\* The lists a caller hands to pkexecWriteCustomProfiles itself: the empty
\* list, one profile, two profiles of one name.
CallerProfileLists ==
    {<<>>, <<Profile("B", 1)>>, <<Profile("A", 0), Profile("A", 1)>>}

\* A call of the public pkexecWriteCustomProfiles(customProfiles): the list
\* is staged and handed to the daemon by the blocking helper, whose exit is
\* the value returned; nothing is checked and the mirror is not refreshed.
CallPkexecWriteCustomProfiles(list) ==
    \E ok \in BOOLEAN :
      /\ Call
      /\ pkexecWriteCustomProfiles(list, ok)
      /\ last' = StagedProfiles("pkexecWriteCustomProfiles", NoArgs, "returned",
                                IF ok THEN "true" ELSE "false",
                                writeProfiles(list), IF ok THEN "ok" ELSE "error")
      /\ UNCHANGED <<mirrorVars, subscriptions, sessionVars, pending>>

\* writeCurrentEditingProfile testing only that there is a draft.
writeCurrentEditingProfile_unchecked ==
    /\ Call
    /\ IF currentProfileEdit # Undefined
       THEN LET changedCustomProfiles ==
                    ArraySet(copyConfigProfiles(customProfiles), currentProfileEditIndex,
                             getCurrentEditingProfile)
            IN  \E result \in BOOLEAN :
                  /\ pkexecWriteCustomProfiles(changedCustomProfiles, result)
                  /\ IF result THEN updateConfigData ELSE UNCHANGED <<customProfiles, customProfilesIsDbusValue, settings>>
                  /\ last' = [StagedProfiles("writeCurrentEditingProfile", NoArgs, "returned",
                                              IF result THEN "true" ELSE "false",
                                              writeProfiles(changedCustomProfiles),
                                              IF result THEN "ok" ELSE "error")
                                  EXCEPT !.refreshes = IF result THEN 1 ELSE 0]
                  /\ UNCHANGED <<defaultProfiles, subscriptions, sessionVars, pending>>
       ELSE /\ last' = NothingDone("writeCurrentEditingProfile", NoArgs, "false")
            /\ UNCHANGED <<mirrorVars, subscriptions, sessionVars, daemonVars, fileVars, pending>>

\* writeCurrentEditingProfile putting the draft into the mirror's own list
\* instead of a copy of it.
writeCurrentEditingProfile_inPlace ==
    /\ Call
    /\ IF editProfileChanges
       THEN LET changedCustomProfiles ==
                    ArraySet(customProfiles, currentProfileEditIndex, getCurrentEditingProfile)
            IN  \E result \in BOOLEAN :
                  /\ pkexecWriteCustomProfiles(changedCustomProfiles, result)
                  /\ customProfiles' = JSONArray(changedCustomProfiles)
                  /\ UNCHANGED customProfilesIsDbusValue
                  /\ settings' = daemonSettings'
                  /\ last' = [StagedProfiles("writeCurrentEditingProfile", NoArgs, "returned",
                                              IF result THEN "true" ELSE "false",
                                              writeProfiles(changedCustomProfiles),
                                              IF result THEN "ok" ELSE "error")
                                  EXCEPT !.refreshes = IF result THEN 1 ELSE 0]
                  /\ UNCHANGED <<defaultProfiles, subscriptions, sessionVars, pending>>
       ELSE /\ last' = NothingDone("writeCurrentEditingProfile", NoArgs, "false")
            /\ UNCHANGED <<mirrorVars, subscriptions, sessionVars, daemonVars, fileVars, pending>>

writeCurrentEditingProfile ==
    /\ Call
    /\ IF editProfileChanges
       THEN LET changedCustomProfiles ==
                    ArraySet(copyConfigProfiles(customProfiles), currentProfileEditIndex,
                             getCurrentEditingProfile)
            IN  \E result \in BOOLEAN :
                  /\ pkexecWriteCustomProfiles(changedCustomProfiles, result)
                  /\ IF result THEN updateConfigData ELSE UNCHANGED <<customProfiles, customProfilesIsDbusValue, settings>>
                  /\ last' = [StagedProfiles("writeCurrentEditingProfile", NoArgs, "returned",
                                              IF result THEN "true" ELSE "false",
                                              writeProfiles(changedCustomProfiles),
                                              IF result THEN "ok" ELSE "error")
                                  EXCEPT !.refreshes = IF result THEN 1 ELSE 0]
                  /\ UNCHANGED <<defaultProfiles, subscriptions, sessionVars, pending>>
       ELSE /\ last' = NothingDone("writeCurrentEditingProfile", NoArgs, "false")
            /\ UNCHANGED <<mirrorVars, subscriptions, sessionVars, daemonVars, fileVars, pending>>

\* The overwrite test without the exception for the profile being changed.
willOverwriteProfile_noSelf(profileIndex, existingDefaultProfileWithNewName, exisitingCustomProfileWithNewName) ==
    /\ profileIndex # 0 - 1
    /\ existingDefaultProfileWithNewName = 0 - 1
    /\ exisitingCustomProfileWithNewName = 0 - 1

\* The overwrite test of writeProfile on its three findIndex results.
willOverwriteProfile(profileIndex, existingDefaultProfileWithNewName, exisitingCustomProfileWithNewName) ==
    /\ profileIndex # 0 - 1
    /\ existingDefaultProfileWithNewName = 0 - 1
    /\ \/ exisitingCustomProfileWithNewName = 0 - 1
       \/ exisitingCustomProfileWithNewName = profileIndex

\* The loop over the states stopping after the first one.
assignStates_firstOnly(newSettings, states, name) ==
    IF states = <<>> THEN newSettings
    ELSE [newSettings EXCEPT !.stateMap[Head(states)] = name]

RECURSIVE assignStates(_, _, _)
\* for (const stateId of states) newSettings.stateMap[stateId] = name
assignStates(newSettings, states, name) ==
    IF states = <<>> THEN newSettings
    ELSE assignStates([newSettings EXCEPT !.stateMap[Head(states)] = name], Tail(states), name)

writeProfile(currentProfileName, profile, states) ==
    LET profileIndex == findIndex(customProfiles, currentProfileName)
        existingDefaultProfileWithNewName == findIndex(defaultProfiles, profile.name)
        exisitingCustomProfileWithNewName == findIndex(customProfiles, profile.name)
        customProfilesCopy == copyConfigProfiles(customProfiles)
        newList == IF willOverwriteProfile(profileIndex, existingDefaultProfileWithNewName,
                                           exisitingCustomProfileWithNewName)
                   THEN ArraySet(customProfilesCopy, profileIndex, profile)
                   ELSE customProfilesCopy
        newSettings == IF states # UndefinedStates
                       THEN assignStates(copyConfigSettings(getSettings), states, profile.name)
                       ELSE copyConfigSettings(getSettings)
        args == [name |-> currentProfileName, newName |-> "", profile |-> profile,
                 states |-> states]
        locals == [profileIndex |-> profileIndex,
                   existingDefault |-> existingDefaultProfileWithNewName,
                   existingCustom |-> exisitingCustomProfileWithNewName]
    IN  /\ Call
        /\ pkexecWriteConfigAsync(newSettings, newList, "writeProfile", args, locals)
        /\ last' = StagedConfig("writeProfile", args, writeProfiles(newList),
                                writeSettings(newSettings))
        /\ UNCHANGED <<mirrorVars, subscriptions, sessionVars, daemonVars>>

saveSettings ==
    LET customProfilesCopy == copyConfigProfiles(customProfiles)
        newSettings == copyConfigSettings(getSettings)
    IN  /\ Call
        /\ pkexecWriteConfigAsync(newSettings, customProfilesCopy, "saveSettings", NoArgs, NoLocals)
        /\ last' = StagedConfig("saveSettings", NoArgs, writeProfiles(customProfilesCopy),
                                writeSettings(newSettings))
        /\ UNCHANGED <<mirrorVars, subscriptions, sessionVars, daemonVars>>

(* ---------------------------- edit session ---------------------------- *)

\* The name argument left out (explicit clear).
UndefinedName == "<undefined>"

setCurrentEditingProfile(customProfileName) ==
    LET index == findIndex(customProfiles, customProfileName)
        cleared == customProfileName = UndefinedName
        args == [NoArgs EXCEPT !.name = customProfileName]
    IN  /\ Call
        /\ currentProfileEditIndex' = index
        /\ IF index = 0 - 1
           THEN /\ currentProfileEdit' = IF cleared THEN Undefined ELSE currentProfileEdit
                /\ beginName' = beginName
                /\ last' = [NothingDone("setCurrentEditingProfile", args, "false")
                                EXCEPT !.editingEmissions = IF cleared THEN 1 ELSE 0]
           ELSE /\ currentProfileEdit' = copyConfigProfile(At(customProfiles, index))
                /\ beginName' = customProfileName
                /\ last' = [NothingDone("setCurrentEditingProfile", args, "true")
                                EXCEPT !.editingEmissions = 1]
        /\ UNCHANGED <<mirrorVars, subscriptions, daemonVars, fileVars, pending>>

\* The caller edits the object getCurrentEditingProfile returned, which is
\* the draft itself: one field gets another value.
MutateDraft(field, value) ==
    /\ Call
    /\ getCurrentEditingProfile # Undefined
    /\ \/ /\ field = "name"
          /\ value \in AllNames \ {currentProfileEdit.name}
          /\ currentProfileEdit' = [currentProfileEdit EXCEPT !.name = value]
       \/ /\ field = "val"
          /\ value \in Vals \ {currentProfileEdit.val}
          /\ currentProfileEdit' = [currentProfileEdit EXCEPT !.val = value]
    /\ last' = NothingDone("mutateDraft", NoArgs, "void")
    /\ UNCHANGED <<mirrorVars, subscriptions, currentProfileEditIndex, beginName, daemonVars, fileVars, pending>>

\* The caller deletes the first key of the object getCurrentEditingProfile
\* returned and sets it again to the value it had: the draft holds the same
\* values with its keys in the other order.
RecreateDraftKey ==
    /\ Call
    /\ getCurrentEditingProfile # Undefined
    /\ currentProfileEdit' = [currentProfileEdit EXCEPT !.keys = OtherOrder(@)]
    /\ last' = NothingDone("recreateDraftKey", NoArgs, "void")
    /\ UNCHANGED <<mirrorVars, subscriptions, currentProfileEditIndex, beginName, daemonVars, fileVars, pending>>

\* arr with the field of its first entry of that name set to value.
withVal(arr, name, value) ==
    IF findIndex(arr, name) = 0 - 1 THEN arr
    ELSE [arr EXCEPT ![findIndex(arr, name) + 1].val = value]

\* The caller editing the mirror's own profile object, as if the lookup
\* returned the found profile itself.
MutateProfileByName_aliased(searchedProfileName, value) ==
    LET foundProfile == At(getAllProfiles, findIndex(getAllProfiles, searchedProfileName))
    IN  /\ Call
        /\ foundProfile # Undefined
        /\ value # foundProfile.val
        /\ IF findIndex(defaultProfiles, searchedProfileName) # 0 - 1
           THEN /\ defaultProfiles' = withVal(defaultProfiles, searchedProfileName, value)
                /\ UNCHANGED <<customProfiles, dbusCustomProfiles>>
           ELSE /\ customProfiles' = withVal(customProfiles, searchedProfileName, value)
                /\ dbusCustomProfiles' = IF customProfilesIsDbusValue THEN customProfiles'
                                       ELSE dbusCustomProfiles
                /\ UNCHANGED defaultProfiles
        /\ last' = NothingDone("mutateProfileByName",
                               [NoArgs EXCEPT !.name = searchedProfileName,
                                              !.profile = [foundProfile EXCEPT !.val = value]],
                               "void")
        /\ UNCHANGED <<settings, subscriptions, customProfilesIsDbusValue, sessionVars,
                       daemonProfiles, daemonSettings, external,
                       fileVars, pending>>

\* The caller edits the object getProfileByName returned: a copy made by
\* copyConfig, which only the caller holds.
MutateProfileByName(searchedProfileName, value) ==
    LET foundProfile == getProfileByName(searchedProfileName)
    IN  /\ Call
        /\ foundProfile # Undefined
        /\ value # foundProfile.val
        /\ last' = NothingDone("mutateProfileByName",
                               [NoArgs EXCEPT !.name = searchedProfileName,
                                              !.profile = [foundProfile EXCEPT !.val = value]],
                               "void")
        /\ UNCHANGED <<mirrorVars, subscriptions, sessionVars, daemonVars, fileVars, pending>>

\* The caller edits the object getCustomProfileByName returned, a copy too.
MutateCustomProfileByName(searchedProfileName, value) ==
    LET foundProfile == getCustomProfileByName(searchedProfileName)
    IN  /\ Call
        /\ foundProfile # Undefined
        /\ value # foundProfile.val
        /\ last' = NothingDone("mutateCustomProfileByName",
                               [NoArgs EXCEPT !.name = searchedProfileName,
                                              !.profile = [foundProfile EXCEPT !.val = value]],
                               "void")
        /\ UNCHANGED <<mirrorVars, subscriptions, sessionVars, daemonVars, fileVars, pending>>

\* The caller edits the object getSettings returned, which is the mirror's
\* settings object itself: one state gets another profile name.
MutateSettings(stateId, profileName) ==
    /\ Call
    /\ getSettings.stateMap[stateId] # profileName
    /\ settings' = [getSettings EXCEPT !.stateMap[stateId] = profileName]
    /\ last' = NothingDone("mutateSettings",
                           [NoArgs EXCEPT !.name = profileName, !.states = <<stateId>>], "void")
    /\ UNCHANGED <<defaultProfiles, subscriptions, customProfiles, customProfilesIsDbusValue,
                   sessionVars, daemonVars, fileVars, pending>>

\* The caller edits a profile of the array getAllProfiles returned: the
\* array is new (concat), its entries are the mirror's own profile objects,
\* and those of the custom list are the entries of the push channel's value
\* as long as the two are one array.
MutateAllProfiles(profileName, value) ==
    LET profile == At(getAllProfiles, findIndex(getAllProfiles, profileName))
    IN  /\ Call
        /\ profile # Undefined
        /\ value # profile.val
        /\ IF findIndex(defaultProfiles, profileName) # 0 - 1
           THEN /\ defaultProfiles' = withVal(defaultProfiles, profileName, value)
                /\ UNCHANGED <<customProfiles, dbusCustomProfiles>>
           ELSE /\ customProfiles' = withVal(customProfiles, profileName, value)
                /\ dbusCustomProfiles' = IF customProfilesIsDbusValue THEN customProfiles'
                                       ELSE dbusCustomProfiles
                /\ UNCHANGED defaultProfiles
        /\ last' = NothingDone("mutateAllProfiles",
                               [NoArgs EXCEPT !.name = profileName,
                                              !.profile = [profile EXCEPT !.val = value]],
                               "void")
        /\ UNCHANGED <<settings, subscriptions, customProfilesIsDbusValue, sessionVars,
                       daemonProfiles, daemonSettings, external,
                       fileVars, pending>>

\* The caller removes the last entry of the array getCustomProfiles
\* returned (pop), which is the mirror's own array, and the push channel's
\* value as long as the two are one array.
PopCustomProfiles ==
    /\ Call
    /\ getCustomProfiles # <<>>
    /\ customProfiles' = SubSeq(getCustomProfiles, 1, Len(getCustomProfiles) - 1)
    /\ dbusCustomProfiles' = IF customProfilesIsDbusValue THEN customProfiles'
                           ELSE dbusCustomProfiles
    /\ last' = NothingDone("popCustomProfiles", NoArgs, "void")
    /\ UNCHANGED <<defaultProfiles, subscriptions, customProfilesIsDbusValue, settings, sessionVars, daemonProfiles, daemonSettings,
                   external, fileVars, pending>>

(* ------------------------- daemon and push channel -------------------- *)

Reverse(list) == [k \in DOMAIN list |-> list[Len(list) + 1 - k]]

\* What another writer can make of the daemon's list: drop the first
\* profile, reorder, change a field of the first profile, write the first
\* profile with its keys in the other order, add a profile.
ExternalResults(list) ==
    ( (IF list # <<>>
       THEN {Tail(list), Reverse(list), [list EXCEPT ![1].val = 1 - @],
             [list EXCEPT ![1].keys = OtherOrder(@)]}
       ELSE {})
      \cup {Append(list, Profile(n, 0)) : n \in CustomNames \ NamesOf(list)} ) \ {list}

ExternalChange ==
    /\ external < MaxExternal
    /\ external' = external + 1
    /\ daemonProfiles' \in ExternalResults(daemonProfiles)
    /\ last' = NothingDone("externalChange", NoArgs, "void")
    /\ UNCHANGED <<mirrorVars, subscriptions, sessionVars, dbusCustomProfiles, daemonSettings, fileVars,
                   pending, calls>>

\* The push channel delivers the daemon's list: dbus.customProfiles.next(...)
\* with a new array, and the constructor's subscription stores it in the
\* mirror. After unsubscribe the mirror keeps the array it had, which is no
\* longer the channel's value; a delivery of an equal list has this effect
\* too.
PushCustomProfiles ==
    /\ \/ dbusCustomProfiles # daemonProfiles
       \/ subscriptions = "closed" /\ customProfilesIsDbusValue
    /\ dbusCustomProfiles' = daemonProfiles
    /\ customProfiles' = IF subscriptions = "open" THEN dbusCustomProfiles' ELSE customProfiles
    /\ customProfilesIsDbusValue' = (subscriptions = "open")
    /\ last' = NothingDone("pushCustomProfiles", NoArgs, "void")
    /\ UNCHANGED <<defaultProfiles, subscriptions, settings, sessionVars, daemonProfiles, daemonSettings,
                   external, fileVars, pending, calls>>

\* The built-in lists the push channel can deliver: the one the client
\* was constructed with, and one that also has a built-in profile "B".
DeliveredDefaultProfiles == {<<Profile("D", 0)>>, <<Profile("D", 0), Profile("B", 0)>>}

\* The push channel delivers a built-in list: dbus.defaultProfiles.next(...)
\* and the constructor's second subscription stores it in the mirror. After
\* unsubscribe the delivery does not reach the service.
PushDefaultProfiles ==
    /\ subscriptions = "open"
    /\ \E nextDefaultProfiles \in DeliveredDefaultProfiles \ {defaultProfiles} :
          defaultProfiles' = nextDefaultProfiles
    /\ last' = NothingDone("pushDefaultProfiles", NoArgs, "void")
    /\ UNCHANGED <<subscriptions, customProfiles, customProfilesIsDbusValue, settings,
                   sessionVars, daemonVars,
                   fileVars, pending, calls>>

\* ngOnDestroy: both subscriptions to the push channel end (a second
\* unsubscribe does nothing).
ngOnDestroy ==
    /\ subscriptions = "open"
    /\ subscriptions' = "closed"
    /\ last' = NothingDone("ngOnDestroy", NoArgs, "void")
    /\ UNCHANGED <<mirrorVars, sessionVars, daemonVars, fileVars, pending, calls>>

(* --------------------------- specification ---------------------------- *)

\* The edit session: begin, edit the draft, commit, while another writer
\* changes the daemon's list and the push channel delivers.
NextEdit ==
    \/ ngOnDestroy
    \/ \E n \in CustomNames \cup {UndefinedName} : setCurrentEditingProfile(n)
    \/ \E v \in AllNames : MutateDraft("name", v)
    \/ \E v \in Vals : MutateDraft("val", v)
    \/ RecreateDraftKey
    \/ writeCurrentEditingProfile
    \/ ExternalChange
    \/ PushCustomProfiles

SpecEdit == Init /\ [][NextEdit]_vars

\* The commits of a profile list alone: copy and delete.
NextProfiles ==
    \/ PushDefaultProfiles
    \/ AsyncCall /\ \E n \in CustomNames, m \in AllNames : copyProfile(n, m)
    \/ AsyncCall /\ \E n \in CustomNames : deleteCustomProfile(n)
    \/ \E i \in 1..MaxCalls, ok \in BOOLEAN : HelperSettle(i, ok)
    \/ ExternalChange
    \/ PushCustomProfiles

SpecProfiles == Init /\ [][NextProfiles]_vars

\* The commit of a profile together with the settings.
NextConfig ==
    \/ AsyncCall /\ \E n \in CustomNames, p \in InputProfiles, st \in InputStates : writeProfile(n, p, st)
    \/ AsyncCall /\ saveSettings
    \/ AsyncCall /\ \E n \in CustomNames : deleteCustomProfile(n)
    \/ \E i \in 1..MaxCalls, ok \in BOOLEAN : HelperSettle(i, ok)
    \/ PushCustomProfiles

SpecConfig == Init /\ [][NextConfig]_vars

\* The assignment of a profile to a state, and refresh.
NextAssign ==
    \/ ngOnDestroy
    \/ Refresh
    \/ \E n \in AllNames, s \in StateIds : setActiveProfile(n, s)
    \/ AsyncCall /\ \E n \in CustomNames : deleteCustomProfile(n)
    \/ AsyncCall /\ saveSettings
    \/ \E i \in 1..MaxCalls, ok \in BOOLEAN : HelperSettle(i, ok)
    \/ PushCustomProfiles

SpecAssign == Init /\ [][NextAssign]_vars

\* Every operation that commits through the helper and reports its outcome,
\* and the public blocking helper called by itself, each on one choice of
\* arguments.
NextCommit ==
    \/ PushDefaultProfiles
    \/ ngOnDestroy
    \/ AsyncCall /\ copyProfile("A", "B")
    \/ AsyncCall /\ deleteCustomProfile("A")
    \/ AsyncCall /\ writeProfile("A", Profile("A", 1), <<"power_ac">>)
    \/ AsyncCall /\ saveSettings
    \/ setActiveProfile("A", "power_bat")
    \/ setCurrentEditingProfile("A")
    \/ MutateDraft("val", 1)
    \/ writeCurrentEditingProfile
    \/ CallPkexecWriteCustomProfiles(<<Profile("A", 0), Profile("A", 1)>>)
    \/ \E i \in 1..MaxCalls, ok \in BOOLEAN : HelperSettle(i, ok)
    \/ PushCustomProfiles

SpecCommit == Init /\ [][NextCommit]_vars

\* The callers of the accessors editing what they were handed and calling
\* the public blocking helper with lists of their own, beside an edit
\* session and the push channel.
NextAccess ==
    \/ PushDefaultProfiles
    \/ ngOnDestroy
    \/ \E n \in AllNames, v \in Vals : MutateProfileByName(n, v)
    \/ \E n \in AllNames, v \in Vals : MutateCustomProfileByName(n, v)
    \/ \E id \in StateIds, n \in AllNames : MutateSettings(id, n)
    \/ \E n \in AllNames, v \in Vals : MutateAllProfiles(n, v)
    \/ PopCustomProfiles
    \/ \E list \in CallerProfileLists : CallPkexecWriteCustomProfiles(list)
    \/ Refresh
    \/ \E n \in CustomNames : setCurrentEditingProfile(n)
    \/ \E v \in AllNames : MutateDraft("name", v)
    \/ \E v \in Vals : MutateDraft("val", v)
    \/ PushCustomProfiles

SpecAccess == Init /\ [][NextAccess]_vars

\* Commits of the profile list called while the helper of an earlier one
\* may still be running.
NextOverlap ==
    \/ PushDefaultProfiles
    \/ ngOnDestroy
    \/ AsyncCall /\ \E m \in {"B", "C"} : copyProfile("A", m)
    \/ AsyncCall /\ \E n \in CustomNames : deleteCustomProfile(n)
    \/ \E i \in 1..MaxCalls, ok \in BOOLEAN : HelperSettle(i, ok)
    \/ PushCustomProfiles

SpecOverlap == Init /\ [][NextOverlap]_vars

(* ------------------------------- claims ------------------------------ *)

\* The step is a call of `op` (not the later exit of its helper).
CallOf(op) == last'.op = op /\ last'.phase # "settled" /\ calls' = calls + 1

\* The step leaves the staging files, the helper processes, the daemon and
\* the mirror as they were.
NothingStaged ==
    /\ ~last'.stagesProfiles /\ ~last'.stagesSettings /\ last'.escalations = 0
    /\ UNCHANGED <<fileVars, pending, daemonVars>>
MirrorUnchanged == UNCHANGED <<defaultProfiles, customProfiles, settings>>

DistinctNames(arr) == \A j, k \in DOMAIN arr : arr[j].name = arr[k].name => j = k

\* C1: every Settings object a step stages maps each state to the name of a
\* profile that is built-in or in the custom list staged with it (in the
\* mirror's custom list when no list is staged).
C1_StagedSettingsNameExistingProfiles ==
    [][last'.stagesSettings =>
         \A id \in StateIds :
            last'.stagedSettings.stateMap[id] \in
                NamesOf(defaultProfiles) \cup
                NamesOf(IF last'.stagesProfiles THEN last'.stagedProfiles ELSE customProfiles)]_vars

\* C2: from a mirror whose profile names are pairwise distinct, every custom
\* list a step stages has pairwise distinct names, none of them the name of a
\* built-in profile.
C2_StagedListsHaveDistinctNames ==
    [][(/\ DistinctNames(getAllProfiles)
        /\ last'.stagesProfiles)
       => /\ DistinctNames(last'.stagedProfiles)
          /\ NamesOf(last'.stagedProfiles) \cap NamesOf(defaultProfiles) = {}]_vars

\* C3: copyProfile(src, newName) with newName the name of an existing
\* profile, built-in or custom, returns false, stages nothing, starts no
\* helper and leaves the mirror as it was.
C3_CopyOntoExistingNameFails ==
    [][(/\ CallOf("copyProfile")
        /\ last'.args.newName \in NamesOf(defaultProfiles) \cup NamesOf(customProfiles))
       => /\ last'.result = "false" /\ last'.phase = "returned"
          /\ NothingStaged
          /\ MirrorUnchanged]_vars

\* A copy of an existing custom profile onto the name of the built-in
\* profile has returned false.
C3_Witness ==
    /\ last.op = "copyProfile" /\ last.result = "false" /\ last.phase = "returned"
    /\ last.args.name \in NamesOf(customProfiles)
    /\ last.args.newName \in NamesOf(defaultProfiles)
    /\ pending = <<>>

\* The step is the exit of the helper of pending[i] and the resolution of
\* the promise of the operation that started it.
Settles(i) ==
    /\ i \in DOMAIN pending
    /\ pending' = RemoveAt(pending, i)
    /\ last'.phase = "settled" /\ last'.op = pending[i].op /\ last'.args = pending[i].args

\* writeProfile found profile.name to be the name of a built-in profile, or
\* of a custom profile other than the one named currentName.
Collided(h) ==
    \/ h.locals.existingDefault # 0 - 1
    \/ h.locals.existingCustom # 0 - 1 /\ h.locals.existingCustom # h.locals.profileIndex

\* C4: writeProfile(currentName, profile) with profile.name the name of
\* another existing profile stages the custom list as it is and resolves to
\* false, whatever the helper's exit.
C4_CollidingWriteProfileFails ==
    [][/\ \A n \in NamesOf(getAllProfiles) \ {last'.args.name} :
            (CallOf("writeProfile") /\ last'.args.profile.name = n)
            => last'.stagedProfiles = customProfiles
       /\ \A i \in DOMAIN pending :
            (Settles(i) /\ pending[i].op = "writeProfile" /\ Collided(pending[i]))
            => last'.result = "false"]_vars

\* C5: writeProfile(currentName, profile) with currentName a custom profile
\* at index i, profile.name = currentName and no built-in profile of that
\* name stages the mirror's custom list with entry i replaced by profile, and
\* resolves to true when the helper exits without error.
C5_NoOpRenameOverwrites ==
    [][/\ (/\ CallOf("writeProfile")
           /\ last'.args.name \in NamesOf(customProfiles)
           /\ last'.args.profile.name = last'.args.name
           /\ last'.args.name \notin NamesOf(defaultProfiles))
          => /\ last'.phase = "staged" /\ last'.stagesProfiles /\ last'.escalations = 1
             /\ last'.stagedProfiles =
                   [customProfiles EXCEPT ![findIndex(customProfiles, last'.args.name) + 1] =
                                             last'.args.profile]
       /\ \A i \in DOMAIN pending :
            (/\ Settles(i) /\ pending[i].op = "writeProfile"
             /\ pending[i].args.profile.name = pending[i].args.name
             /\ pending[i].locals.profileIndex # 0 - 1
             /\ pending[i].locals.existingDefault = 0 - 1
             /\ last'.helper = "ok")
            => last'.result = "true"]_vars

\* A no-op rename that changes the profile's field has been staged with the
\* new content at the profile's index.
C5_Witness ==
    /\ last.op = "writeProfile" /\ last.phase = "staged"
    /\ last.args.profile.name = last.args.name
    /\ last.args.name \in NamesOf(customProfiles)
    /\ At(customProfiles, findIndex(customProfiles, last.args.name)) # last.args.profile
    /\ At(last.stagedProfiles, findIndex(customProfiles, last.args.name)) = last.args.profile

\* C6: begin(name) with a name no custom profile has returns false and
\* leaves the session idle: no draft, hasChanges() false, and a commit that
\* follows returns false without staging or escalating.
C6_FailedBeginLeavesSessionIdle ==
    [][/\ (/\ CallOf("setCurrentEditingProfile")
           /\ last'.args.name \notin NamesOf(customProfiles))
          => /\ last'.result = "false"
             /\ getCurrentEditingProfile' = Undefined
             /\ ~editProfileChanges'
       /\ (/\ last.op = "setCurrentEditingProfile" /\ last.result = "false"
           /\ CallOf("writeCurrentEditingProfile"))
          => /\ last'.result = "false"
             /\ NothingStaged]_vars

\* C7: hasChanges() is false right after a successful begin(name), true
\* after a mutation of a field of the draft that had no changes, and false
\* after a commit followed by begin on the name the session was begun on.
C7_DiffCorrectness ==
    [][/\ (CallOf("setCurrentEditingProfile") /\ last'.result = "true")
          => ~editProfileChanges'
       /\ (CallOf("mutateDraft") /\ ~editProfileChanges)
          => editProfileChanges'
       /\ (/\ last.op = "writeCurrentEditingProfile"
           /\ CallOf("setCurrentEditingProfile")
           /\ last'.args.name = beginName)
          => ~editProfileChanges']_vars

\* C8: commitEditingProfile() stages and escalates only if hasChanges() is
\* true; with hasChanges() false it returns false, writes no staging file,
\* starts no helper, does not refresh and leaves mirror and draft alone.
C8_CommitWithoutChangesDoesNothing ==
    [][(CallOf("writeCurrentEditingProfile") /\ ~editProfileChanges)
       => /\ last'.result = "false"
          /\ NothingStaged
          /\ last'.refreshes = 0
          /\ MirrorUnchanged
          /\ UNCHANGED <<currentProfileEdit, currentProfileEditIndex>>]_vars

\* A commit on a draft equal to the stored profile has returned false.
C8_Witness ==
    /\ last.op = "writeCurrentEditingProfile" /\ last.result = "false"
    /\ last.escalations = 0
    /\ currentProfileEdit # Undefined
    /\ currentProfileEdit = At(customProfiles, currentProfileEditIndex)

\* C9: deleteCustomProfile(name) with a name no custom profile has, and
\* copyProfile(src, newName) with src no profile's name, return false and
\* change and stage nothing; with a matching name the staged list is the
\* mirror's list without the entries of that name, the others in order.
C9_DeleteAndCopyOfMissingProfile ==
    [][/\ (CallOf("deleteCustomProfile") /\ last'.args.name \notin NamesOf(customProfiles))
          => (last'.result = "false" /\ NothingStaged /\ MirrorUnchanged)
       /\ (CallOf("copyProfile") /\ last'.args.name \notin NamesOf(getAllProfiles))
          => (last'.result = "false" /\ NothingStaged /\ MirrorUnchanged)
       /\ (CallOf("deleteCustomProfile") /\ last'.args.name \in NamesOf(customProfiles))
          => /\ last'.stagesProfiles /\ last'.escalations = 1
             /\ last'.stagedProfiles =
                   SelectSeq(customProfiles, LAMBDA p : p.name # last'.args.name)
             /\ tmpProfilesFile' = last'.stagedProfiles]_vars

\* A delete of one of two custom profiles has staged the other one.
C9_Witness ==
    /\ last.op = "deleteCustomProfile" /\ last.phase = "staged"
    /\ Len(customProfiles) = 2
    /\ Len(last.stagedProfiles) = 1
    /\ tmpProfilesFile = last.stagedProfiles

ReportingCommits ==
    {"copyProfile", "deleteCustomProfile", "writeProfile", "saveSettings",
     "writeCurrentEditingProfile"}

\* C10: when the helper exits with an error, copyProfile,
\* deleteCustomProfile, writeProfile, saveSettings and commitEditingProfile
\* yield false, do not refresh and leave the mirror's settings and profile
\* lists as they were; when it exits without error they yield true.
C10_HelperExitDecidesResult ==
    [][last'.op \in ReportingCommits
       => /\ last'.helper = "error"
             => (last'.result = "false" /\ last'.refreshes = 0 /\ MirrorUnchanged)
          /\ last'.helper = "ok"
             => last'.result = "true"]_vars

\* The helper of an asynchronous commit has exited with an error.
C10_Witness ==
    /\ last.op \in ReportingCommits
    /\ last.phase = "settled" /\ last.helper = "error" /\ last.result = "false"

AsyncCommits == {"copyProfile", "deleteCustomProfile", "writeProfile", "saveSettings"}

\* C11: a commit refreshes only after its own helper has exited.
\* setActiveProfile stages the mirror's settings with stateMap[stateId] =
\* profileName and refreshes once after the helper's exit, with or without
\* error, so the mirror then holds what the daemon holds; an asynchronous
\* commit does not refresh when it starts its helper, refreshes once when
\* the helper exits without error and not at all when it exits with one.
C11_RefreshFollowsOwnHelper ==
    [][/\ CallOf("setActiveProfile")
          => /\ last'.stagesSettings /\ last'.escalations = 1
             /\ last'.stagedSettings =
                   [settings EXCEPT !.stateMap[last'.args.states[1]] = last'.args.name]
             /\ tmpSettingsFile' = last'.stagedSettings
             /\ last'.helper \in {"ok", "error"}
             /\ last'.refreshes = 1
             /\ settings' = IF last'.helper = "ok" THEN last'.stagedSettings ELSE settings
       /\ (last'.op \in AsyncCommits /\ last'.phase = "staged")
          => /\ last'.helper = "started" /\ last'.refreshes = 0
             /\ MirrorUnchanged
       /\ \A i \in DOMAIN pending :
            (Settles(i) /\ pending[i].op \in AsyncCommits)
            => /\ last'.helper \in {"ok", "error"}
               /\ last'.refreshes = IF last'.helper = "ok" THEN 1 ELSE 0
               /\ last'.helper = "ok" => settings' = daemonSettings']_vars

\* An assignment whose helper exited without error has changed the mirror's
\* settings to the staged ones.
C11_Witness ==
    /\ last.op = "setActiveProfile" /\ last.helper = "ok" /\ last.refreshes = 1
    /\ last.stagedSettings.stateMap["power_bat"] = "A"
    /\ settings = last.stagedSettings
    /\ settings # [stateMap |-> [s \in StateIds |-> "D"]]

\* What a lookup by name in `list` returns.
FoundIn(list, searchedProfileName) ==
    copyConfigProfile(At(list, findIndex(list, searchedProfileName)))

\* After the step getProfileByName and getCustomProfileByName return what
\* they returned before it, for every name.
LookupsUnchanged ==
    /\ \A n \in AllNames :
          FoundIn(defaultProfiles' \o customProfiles', n) = getProfileByName(n)
    /\ \A n \in AllNames : FoundIn(customProfiles', n) = getCustomProfileByName(n)

\* The step is a caller editing an object an accessor returned.
MutatesReturned ==
    \/ CallOf("mutateProfileByName")
    \/ CallOf("mutateCustomProfileByName")
    \/ CallOf("mutateDraft")

\* C12 as stated: editing an object returned by getProfileByName,
\* getCustomProfileByName or getCurrentEditingProfile changes neither what
\* the same accessor returns afterwards nor the mirror's profile lists.
C12_ReturnedObjectsAreDetached ==
    [][MutatesReturned
       => /\ LookupsUnchanged
          /\ currentProfileEdit' = getCurrentEditingProfile
          /\ UNCHANGED <<defaultProfiles, customProfiles>>]_vars

\* editProfileChanges on a draft, a custom list and a captured index.
HasChanges(draft, list, index) ==
    IF draft = Undefined THEN FALSE
    ELSE JSONstringify(draft) # JSONstringify(At(list, index))

\* C12 amended: editing an object returned by getProfileByName or
\* getCustomProfileByName changes neither what these return afterwards, nor
\* the draft, nor the mirror's profile lists; editing a field of the object
\* getCurrentEditingProfile returned changes the draft it returns
\* afterwards, makes editProfileChanges true when it was false, and leaves
\* the lookups' results and the mirror's profile lists alone.
C12_LookupsAreDetachedDraftIsNot ==
    [][/\ MutatesReturned
          => /\ LookupsUnchanged
             /\ UNCHANGED <<defaultProfiles, customProfiles>>
       /\ CallOf("mutateProfileByName")
          => /\ last'.args.profile #
                   FoundIn(defaultProfiles' \o customProfiles', last'.args.name)
             /\ currentProfileEdit' = getCurrentEditingProfile
       /\ CallOf("mutateCustomProfileByName")
          => /\ last'.args.profile # FoundIn(customProfiles', last'.args.name)
             /\ currentProfileEdit' = getCurrentEditingProfile
       /\ CallOf("mutateDraft")
          => /\ currentProfileEdit' # getCurrentEditingProfile
             /\ ~editProfileChanges
                => HasChanges(currentProfileEdit', customProfiles',
                              currentProfileEditIndex')]_vars

\* A caller has edited the profile a lookup returned while a draft edited
\* through getCurrentEditingProfile differs from the stored profile.
C12_Witness ==
    /\ last.op = "mutateProfileByName"
    /\ last.args.name \in NamesOf(customProfiles)
    /\ last.args.profile # getProfileByName(last.args.name)
    /\ currentProfileEdit # Undefined
    /\ currentProfileEditIndex >= 0
    /\ currentProfileEdit # At(customProfiles, currentProfileEditIndex)
    /\ editProfileChanges

\* The step is a caller editing what a getter of the mirror returned.
MutatesGot ==
    \/ CallOf("mutateSettings")
    \/ CallOf("mutateAllProfiles")
    \/ CallOf("popCustomProfiles")

\* C13: getSettings, getCustomProfiles, getDefaultProfiles and
\* getAllProfiles return copies: a caller editing a returned settings
\* object, a returned list or a profile in it changes neither what the
\* mirror holds nor what a getter returns afterwards.
C13_GettersReturnCopies ==
    [][MutatesGot
       => /\ UNCHANGED <<settings, customProfiles, defaultProfiles>>
          /\ getSettings' = getSettings
          /\ getAllProfiles' = getAllProfiles]_vars

CommitOps == ReportingCommits \cup {"setActiveProfile"}

\* C14: no step of setActiveProfile, copyProfile, deleteCustomProfile,
\* writeProfile, saveSettings or writeCurrentEditingProfile changes the
\* mirror's settings or lists in place: a step without a refresh leaves
\* them as they were, a step with a refresh leaves them holding the push
\* channel's list and the daemon's settings, and neither the draft nor the
\* profile given to writeProfile gets into the mirror's list or the push
\* channel's value by the commit: the push channel's value stays as it
\* was, and the mirror's list is the one it was or the push channel's.
C14_CommitsLeaveMirrorToRefresh ==
    [][last'.op \in CommitOps
       => /\ last'.refreshes = 0 => MirrorUnchanged
          /\ last'.refreshes = 1
             => /\ customProfiles' = dbusCustomProfiles
                /\ settings' = daemonSettings'
                /\ UNCHANGED defaultProfiles
          /\ UNCHANGED dbusCustomProfiles
          /\ customProfiles' \in {customProfiles, dbusCustomProfiles}]_vars

\* A commit of a changed draft has succeeded and refreshed, and the
\* mirror's list still holds the profile as it was before the commit.
C14_Witness ==
    /\ last.op = "writeCurrentEditingProfile" /\ last.result = "true" /\ last.refreshes = 1
    /\ currentProfileEditIndex >= 0
    /\ At(last.stagedProfiles, currentProfileEditIndex) = currentProfileEdit
    /\ At(customProfiles, currentProfileEditIndex) # currentProfileEdit
    /\ daemonProfiles = last.stagedProfiles

\* C15: the staging files are written by every asynchronous commit that
\* stages, whether or not the helper of an earlier call is still running,
\* and a helper that exits without error has handed the daemon either its
\* own payload or what the staging file holds at that time; so the helper
\* of a first call can apply the payload of a second call (C15_Witness).
C15_StagingIsUnsynchronized ==
    [][/\ (last'.op \in AsyncCommits /\ last'.phase = "staged")
          => /\ tmpProfilesFile' = last'.stagedProfiles
             /\ last'.stagesSettings => tmpSettingsFile' = last'.stagedSettings
             /\ Len(pending') = Len(pending) + 1
             /\ pending'[Len(pending')].ownProfiles = last'.stagedProfiles
             /\ \A i \in DOMAIN pending : pending'[i] = pending[i]
       /\ \A i \in DOMAIN pending :
            (Settles(i) /\ last'.helper = "ok")
            => daemonProfiles' \in {pending[i].ownProfiles, tmpProfilesFile}]_vars

\* copyProfile and then a second commit were called before the first
\* helper exited; the first helper has exited without error and the daemon
\* holds the list the second call staged, without the copy.
C15_Witness ==
    /\ last.op = "copyProfile" /\ last.phase = "settled" /\ last.helper = "ok"
    /\ last.args.newName \notin NamesOf(daemonProfiles)
    /\ pending # <<>>
    /\ daemonProfiles = pending[Len(pending)].ownProfiles
    /\ daemonProfiles = tmpProfilesFile

\* C16: a commit of a session begun on `name` that stages, whatever the
\* push channel delivered since begin, stages a list as long as the
\* mirror's custom list, without an empty entry, that differs from the
\* mirror's list only at the entry named `name`.
C16_CommitReplacesOnlyBegunProfile ==
    [][(/\ CallOf("writeCurrentEditingProfile")
        /\ currentProfileEdit # Undefined
        /\ currentProfileEditIndex # 0 - 1
        /\ last'.stagesProfiles)
       => /\ Len(last'.stagedProfiles) = Len(customProfiles)
          /\ \A k \in DOMAIN last'.stagedProfiles : last'.stagedProfiles[k] # Null
          /\ \A k \in DOMAIN customProfiles \cap DOMAIN last'.stagedProfiles :
                last'.stagedProfiles[k] # customProfiles[k]
                => customProfiles[k].name = beginName]_vars

\* The session is idle: no begin has succeeded since construction, the last
\* clear or the last failed begin (each of which leaves the index at -1).
SessionIdle == currentProfileEditIndex = 0 - 1

\* The draft and the entry hold different content: there is no entry, or a
\* field of one has another value than in the other (whatever the order of
\* their keys).
StructurallyUnequal(draft, stored) ==
    \/ stored = Undefined
    \/ draft.name # stored.name
    \/ draft.val # stored.val

\* C17: after every step, hasChanges() is false when the session is idle
\* and otherwise true exactly when the draft differs from the custom
\* profile stored at the captured index; so after a push delivery during
\* an edit session, with the draft left as it was, hasChanges() is true
\* exactly when the delivered list's entry at the index differs from the
\* draft.
C17_HasChangesComparesDraftWithStored ==
    [][/\ SessionIdle' => ~editProfileChanges'
       /\ ~SessionIdle'
          => (editProfileChanges' <=>
                StructurallyUnequal(currentProfileEdit',
                                    At(customProfiles', currentProfileEditIndex')))
       /\ (last'.op = "pushCustomProfiles" /\ ~SessionIdle)
          => /\ UNCHANGED <<currentProfileEdit, currentProfileEditIndex>>
             /\ editProfileChanges' <=>
                   StructurallyUnequal(currentProfileEdit,
                                       At(dbusCustomProfiles', currentProfileEditIndex))]_vars

\* writeProfile(currentName, profile, ...) may not overwrite: currentName is
\* no custom profile, or profile.name is the name of a built-in profile or
\* of a custom profile at another index.
OverwriteNotPermitted(currentName, profile) ==
    \/ findIndex(customProfiles, currentName) = 0 - 1
    \/ findIndex(defaultProfiles, profile.name) # 0 - 1
    \/ findIndex(customProfiles, profile.name)
          \notin {0 - 1, findIndex(customProfiles, currentName)}

\* C18: a writeProfile whose overwrite is not permitted still starts one
\* helper with both payloads: the staged list equals the mirror's custom
\* list, and the staged settings are the mirror's settings with every
\* state of `states`, if given, mapped to profile.name.
C18_BlockedWriteProfileStillStages ==
    [][(/\ CallOf("writeProfile")
        /\ OverwriteNotPermitted(last'.args.name, last'.args.profile))
       => /\ last'.phase = "staged" /\ last'.escalations = 1
          /\ last'.stagesProfiles /\ last'.stagesSettings
          /\ Len(pending') = Len(pending) + 1
          /\ pending'[Len(pending')].withSettings
          /\ last'.stagedProfiles = customProfiles
          /\ tmpProfilesFile' = last'.stagedProfiles
          /\ last'.stagedSettings =
                [stateMap |->
                    [id \in StateIds |->
                        IF /\ last'.args.states # UndefinedStates
                           /\ \E k \in DOMAIN last'.args.states : last'.args.states[k] = id
                        THEN last'.args.profile.name
                        ELSE settings.stateMap[id]]]
          /\ tmpSettingsFile' = last'.stagedSettings]_vars

\* A writeProfile renaming a custom profile to the name of another custom
\* profile, with both states given, has staged the list as it is and
\* settings that map both states to the new name.
C18_Witness ==
    /\ last.op = "writeProfile" /\ last.phase = "staged"
    /\ last.args.profile.name \in NamesOf(customProfiles) \ {last.args.name}
    /\ last.args.name \in NamesOf(customProfiles)
    /\ last.stagedProfiles = customProfiles
    /\ \A id \in StateIds : last.stagedSettings.stateMap[id] = last.args.profile.name
    /\ \A id \in StateIds : settings.stateMap[id] # last.args.profile.name

\* C19: a call of refresh() leaves the mirror holding the push channel's
\* custom list and the daemon's settings, emits the settings once whether
\* or not they changed, emits nothing on the editing stream and leaves the
\* draft and the captured index alone; a refresh() right after a refresh()
\* leaves the mirror as the first one left it.
C19_RefreshIsIdempotentAndEmits ==
    [][CallOf("updateConfigData")
       => /\ UNCHANGED <<dbusCustomProfiles, daemonSettings>>
          /\ customProfiles' = dbusCustomProfiles
          /\ settings' = daemonSettings
          /\ last'.refreshes = 1
          /\ last'.editingEmissions = 0
          /\ UNCHANGED <<currentProfileEdit, currentProfileEditIndex>>
          /\ last.op = "updateConfigData" => MirrorUnchanged]_vars

\* refresh() was called during an edit session with a changed draft and
\* has left the settings equal to the daemon's.
C19_Witness ==
    /\ last.op = "updateConfigData" /\ last.refreshes = 1
    /\ calls >= 2
    /\ currentProfileEdit # Undefined
    /\ currentProfileEditIndex >= 0
    /\ editProfileChanges
    /\ settings = daemonSettings

\* The list holds the effect of the commit: the copy's new name is in it,
\* the deleted name is not.
HoldsEffect(list, op, args) ==
    /\ op = "copyProfile" => args.newName \in NamesOf(list)
    /\ op = "deleteCustomProfile" => args.name \notin NamesOf(list)

\* C20: when the helpers of two commits of the profile list that were
\* running at the same time have both exited without error, one right
\* after the other, the list the daemon then holds has the effect of both
\* commits.
C20_NoCommitLostToOverlap ==
    [][\A i \in DOMAIN pending :
         (/\ last.phase = "settled" /\ last.helper = "ok"
          /\ Settles(i) /\ last'.helper = "ok"
          /\ {last.op, last'.op} \subseteq {"copyProfile", "deleteCustomProfile"})
         => /\ HoldsEffect(daemonProfiles', last.op, last.args)
            /\ HoldsEffect(daemonProfiles', last'.op, last'.args)]_vars

====
